---- MODULE Spec2Model ----
(***************************************************************************)
(* Model of web/scripts/sync_zh_locale.py: the incremental en -> zh-CN     *)
(* locale synchronisation (load_json, google_translate_en_to_zh, main).    *)
(*                                                                         *)
(* A Python str is a sequence of characters; a character is a one-element  *)
(* token ("h", " ", and "ni"/"bao"/"cun" standing for CJK characters).     *)
(* A JSON value is a record [t, s]: t = "str" with the text in s, or       *)
(* t = "other" (number, list, ...), or t = "None" (the result of a failed  *)
(* dict.get).  Source values are well-formed strings (section 6 of the     *)
(* specification: flat string-to-string mapping, UTF-8 encoded).           *)
(***************************************************************************)
EXTENDS Integers, Sequences, FiniteSets, TLC

VARIABLES
    enDoc, zhDoc, metaDoc,        \* the three persisted documents
    pc, runs,                     \* position of the process, runs started
    en, zh_existing, meta_existing,
    zh_next, meta_next,
    translated_count, reused_count,
    todo,                         \* keys of sorted(en.keys()) not yet processed
    key,                          \* key whose translation is in progress
    call,                         \* the call of google_translate_en_to_zh in progress
    response,                     \* response received by the call's current attempt
    calls, returns,               \* per run: the calls made and how each returned
    pauses, summary,              \* per run: 0.06 s pauses, the summary line
    hist                          \* entry order of the dicts and documents, and
                                  \* where each target entry came from

docVars == <<enDoc, zhDoc, metaDoc>>
vars == <<enDoc, zhDoc, metaDoc, pc, runs, en, zh_existing, meta_existing,
          zh_next, meta_next, translated_count, reused_count, todo, key,
          call, response, calls, returns, pauses, summary, hist>>

----------------------------------------------------------------------------
(* Bounds *)

\* complete runs of the script in one behaviour
MaxRuns == 2
\* segments in payload[0] of a response
MaxParts == 2

----------------------------------------------------------------------------
(* Strings and JSON values *)

Whitespace == {" "}

RECURSIVE LStrip(_)
LStrip(s) == IF s # <<>> /\ Head(s) \in Whitespace THEN LStrip(Tail(s)) ELSE s

RECURSIVE RStrip(_)
RStrip(s) ==
    IF s # <<>> /\ s[Len(s)] \in Whitespace
    THEN RStrip(SubSeq(s, 1, Len(s) - 1))
    ELSE s

\* str.strip()
Strip(s) == RStrip(LStrip(s))

\* truth value of a Python str
Truthy(s) == s # <<>>

JStr(s) == [t |-> "str", s |-> s]
JOther == [t |-> "other", s |-> <<>>]
None == [t |-> "None", s |-> <<>>]

\* isinstance(v, str)
IsStr(v) == v.t = "str"

\* dict.get(k)
Get(m, k) == IF k \in DOMAIN m THEN m[k] ELSE None

EmptyMap == [k \in {} |-> None]

\* d[k] = v on a dict
Put(m, k, v) == [x \in DOMAIN m \cup {k} |-> IF x = k THEN v ELSE m[x]]

----------------------------------------------------------------------------
(* Keys, the override table and the documents *)

\* keys in ascending string order
KeyOrder == <<"a", "b", "common.save">>
Keys == {KeyOrder[i] : i \in 1..Len(KeyOrder)}

\* "bao","cun" stand for the two characters of the override text
KEY_OVERRIDES == [k \in {"common.save"} |-> <<"bao", "cun">>]

\* the orders in which a dict holding the keys S can list them
RECURSIVE Orders(_)
Orders(S) ==
    IF S = {} THEN {<<>>}
    ELSE UNION {{<<k>> \o o : o \in Orders(S \ {k})} : k \in S}

\* a loop over the keys as the dict lists them
Unsorted(ks) == ks

\* sorted(keys)
Sorted(ks) == SelectSeq(KeyOrder, LAMBDA k : \E i \in 1..Len(ks) : ks[i] = k)

MissingDoc == [st |-> "missing", map |-> EmptyMap]
MalformedDoc == [st |-> "malformed", map |-> EmptyMap]
OkDoc(m) == [st |-> "ok", map |-> m]

load_json(doc, fallback) ==
    IF doc.st = "missing" THEN fallback
    ELSE IF doc.st = "malformed" THEN fallback
    ELSE doc.map

\* path.write_text(json.dumps(mapping, ...))
Written(mapping) == OkDoc(mapping)

----------------------------------------------------------------------------
(* google_translate_en_to_zh *)

\* range(3)
MaxAttempts == 3
\* if attempt == 2
LastAttempt == 2
\* time.sleep(0.2 * (attempt + 1)), in tenths of a second
BaseDelay == 2

NoWarning == [text |-> <<>>, error |-> "none"]
NoResponse == [err |-> "none", shape |-> "unset", parts |-> <<>>]

\* exceptions of urlopen / read / decode / json.loads
Errors == {"URLError", "timeout", "decode"}

\* a segment of payload[0]: not a list, an empty list, a list whose first
\* element is not a str, or a list whose first element is the fragment
BadParts == {[shape |-> sh, frag |-> <<>>] : sh \in {"notlist", "emptylist", "nonstr"}}
Frags == {<<>>, <<" ">>, <<"ni">>}
Parts == BadParts \cup {[shape |-> "str", frag |-> f] : f \in Frags}
PartSeqs == UNION {[1..n -> Parts] : n \in 0..MaxParts}

\* what one attempt can meet: an exception, a payload that is not a list,
\* an empty list, a list whose first element is not a list, or a list of segments
Responses ==
    {[err |-> e, shape |-> "unset", parts |-> <<>>] : e \in Errors}
    \cup {[err |-> "none", shape |-> sh, parts |-> <<>>] :
            sh \in {"notlist", "emptylist", "firstnotlist"}}
    \cup {[err |-> "none", shape |-> "list", parts |-> p] : p \in PartSeqs}

\* "".join(part[0] for part in payload[0] if isinstance(part, list) and part
\*         and isinstance(part[0], str))
RECURSIVE JoinParts(_)
JoinParts(parts) ==
    IF parts = <<>> THEN <<>>
    ELSE IF Head(parts).shape = "str"
         THEN Head(parts).frag \o JoinParts(Tail(parts))
         ELSE JoinParts(Tail(parts))

\* isinstance(payload, list) and payload and isinstance(payload[0], list)
ShapeOk(resp) == resp.shape = "list"

\* no call in progress
NoCall ==
    [text |-> <<>>, attempt |-> 0, error |-> "none", requests |-> 0,
     waits |-> <<>>, warned |-> NoWarning, outcome |-> "none", result |-> <<>>]

\* a blank test without strip()
EnterNoStrip(t) ==
    IF ~Truthy(t)
    THEN [NoCall EXCEPT !.text = t, !.outcome = "blank", !.result = t]
    ELSE [NoCall EXCEPT !.text = t, !.outcome = "running"]

\* lines 55-57: a blank text is returned at once; another enters the for loop.
\* requests counts the urlopen calls, waits lists the sleeps (tenths of a second),
\* warned is the warning printed, outcome and result are how the call returned
Enter(t) ==
    IF ~Truthy(Strip(t))
    THEN [NoCall EXCEPT !.text = t, !.outcome = "blank", !.result = t]
    ELSE [NoCall EXCEPT !.text = t, !.outcome = "running"]

\* line 72: urlopen
Request(c) == [c EXCEPT !.requests = @ + 1]

\* a loop that runs one iteration more
NextAttemptOneMore(c) ==
    IF c.attempt + 1 <= MaxAttempts
    THEN [c EXCEPT !.attempt = @ + 1]
    ELSE [c EXCEPT !.outcome = "exhausted", !.result = c.text]

\* the end of an iteration of the for loop that did not return: the next
\* iteration, or line 89 after the last
NextAttempt(c) ==
    IF c.attempt + 1 < MaxAttempts
    THEN [c EXCEPT !.attempt = @ + 1]
    ELSE [c EXCEPT !.outcome = "exhausted", !.result = c.text]

\* lines 84-87
Except(c, err) ==
    [c EXCEPT !.error = err,
              !.warned = IF c.attempt = LastAttempt
                         THEN [text |-> c.text, error |-> err]
                         ELSE @,
              !.waits = Append(@, BaseDelay * (c.attempt + 1))]

\* lines 73-87 without the strip of line 81
HandleNoStrip(c, resp) ==
    IF resp.err # "none"
    THEN NextAttempt(Except(c, resp.err))
    ELSE IF ShapeOk(resp) /\ Truthy(JoinParts(resp.parts))
         THEN [c EXCEPT !.outcome = "ok", !.result = JoinParts(resp.parts)]
         ELSE NextAttempt(c)

\* lines 73-87: one iteration of the for loop on the response resp
Handle(c, resp) ==
    IF resp.err # "none"
    THEN NextAttempt(Except(c, resp.err))
    ELSE IF ShapeOk(resp) /\ Truthy(Strip(JoinParts(resp.parts)))
         THEN [c EXCEPT !.outcome = "ok", !.result = Strip(JoinParts(resp.parts))]
         ELSE NextAttempt(c)

----------------------------------------------------------------------------
(* main *)

\* nothing printed by line 131 yet
NoSummary == [emitted |-> FALSE, reused |-> 0, translated |-> 0, total |-> 0]

\* nothing written or inserted yet, nothing known of the documents found.
\* order: the keys of zh_next and meta_next in insertion order (the order of
\* json.dumps); zh_order, meta_order: the entry order of the written documents;
\* origin, next: the source value each entry of the target document and of
\* zh_next was produced from; failed: the keys whose translation failed in a
\* complete run and whose source value was not edited since
NoHist ==
    [order |-> <<>>, zh_order |-> <<>>, meta_order |-> <<>>,
     origin |-> EmptyMap, next |-> EmptyMap, failed |-> {}]

\* zh_next[k] = ..., meta_next[k] = ...: the key enters both dicts
Inserted(k, src) == [hist EXCEPT !.order = Append(@, k), !.next = Put(@, k, src)]

\* a process can be started when none is running
Stopped == pc \in {"idle", "done", "killed", "crashed_zh", "crashed_meta"}

\* lines 93-103: the three loads, the empty outputs, the counters, the key order
Start(limit) ==
    /\ Stopped
    /\ runs < limit
    /\ runs' = runs + 1
    /\ en' = load_json(enDoc, EmptyMap)
    /\ zh_existing' = load_json(zhDoc, EmptyMap)
    /\ meta_existing' = load_json(metaDoc, EmptyMap)
    /\ zh_next' = EmptyMap
    /\ meta_next' = EmptyMap
    /\ translated_count' = 0
    /\ reused_count' = 0
    /\ \E ks \in Orders(DOMAIN en') : todo' = Sorted(ks)
    /\ key' = "none"
    /\ call' = NoCall
    /\ calls' = <<>>
    /\ returns' = <<>>
    /\ pauses' = 0
    /\ summary' = NoSummary
    /\ hist' = [hist EXCEPT !.order = <<>>, !.next = EmptyMap]
    /\ pc' = "loop"
    /\ UNCHANGED <<docVars, response>>

StartRun == Start(MaxRuns)

\* a reuse test that does not look at the snapshot
ReusableIgnoringSnapshot(k) ==
    /\ IsStr(Get(zh_existing, k))
    /\ Truthy(Strip(Get(zh_existing, k).s))

\* a reuse test that compares the snapshot with the target instead of the source
ReusableComparesTarget(k) ==
    /\ IsStr(Get(zh_existing, k))
    /\ Truthy(Strip(Get(zh_existing, k).s))
    /\ Get(meta_existing, k) = Get(zh_existing, k)

\* a reuse test that takes a key without a snapshot entry as unchanged
ReusableWhenNoSnapshot(k) ==
    /\ IsStr(Get(zh_existing, k))
    /\ Truthy(Strip(Get(zh_existing, k).s))
    /\ (Get(meta_existing, k) = None \/ Get(meta_existing, k) = en[k])

\* a reuse test that sends an untranslated target to the client again
ReusableUnlessUntranslated(k) ==
    /\ IsStr(Get(zh_existing, k))
    /\ Truthy(Strip(Get(zh_existing, k).s))
    /\ Get(meta_existing, k) = en[k]
    /\ Get(zh_existing, k) # en[k]

\* line 114
Reusable(k) ==
    /\ IsStr(Get(zh_existing, k))
    /\ Truthy(Strip(Get(zh_existing, k).s))
    /\ Get(meta_existing, k) = en[k]

\* an override test placed after the reuse test
OverriddenUnlessReusable(k) == k \in DOMAIN KEY_OVERRIDES /\ ~Reusable(k)

\* line 105
Overridden(k) == k \in DOMAIN KEY_OVERRIDES

\* lines 105-109 without line 108
OverrideUncounted ==
    /\ pc = "loop" /\ todo # <<>>
    /\ LET k == Head(todo) IN
        /\ Overridden(k)
        /\ zh_next' = Put(zh_next, k, JStr(KEY_OVERRIDES[k]))
        /\ meta_next' = Put(meta_next, k, en[k])
        /\ hist' = Inserted(k, en[k])
    /\ todo' = Tail(todo)
    /\ UNCHANGED <<docVars, call, response, pc, runs, en, zh_existing,
                   meta_existing, translated_count, reused_count, key, calls,
                   returns, pauses, summary>>

\* lines 105-109
Override ==
    /\ pc = "loop" /\ todo # <<>>
    /\ LET k == Head(todo) IN
        /\ Overridden(k)
        /\ zh_next' = Put(zh_next, k, JStr(KEY_OVERRIDES[k]))
        /\ meta_next' = Put(meta_next, k, en[k])
        /\ reused_count' = reused_count + 1
        /\ hist' = Inserted(k, en[k])
    /\ todo' = Tail(todo)
    /\ UNCHANGED <<docVars, call, response, pc, runs, en, zh_existing,
                   meta_existing, translated_count, key, calls, returns,
                   pauses, summary>>

\* a reuse branch that stores the source value as the target
ReuseStoresSource ==
    /\ pc = "loop" /\ todo # <<>>
    /\ LET k == Head(todo) IN
        /\ ~Overridden(k)
        /\ Reusable(k)
        /\ zh_next' = Put(zh_next, k, en[k])
        /\ meta_next' = Put(meta_next, k, en[k])
        /\ reused_count' = reused_count + 1
        /\ hist' = Inserted(k, Get(hist.origin, k))
    /\ todo' = Tail(todo)
    /\ UNCHANGED <<docVars, call, response, pc, runs, en, zh_existing,
                   meta_existing, translated_count, key, calls, returns,
                   pauses, summary>>

\* lines 111-118
Reuse ==
    /\ pc = "loop" /\ todo # <<>>
    /\ LET k == Head(todo) IN
        /\ ~Overridden(k)
        /\ Reusable(k)
        /\ zh_next' = Put(zh_next, k, Get(zh_existing, k))
        /\ meta_next' = Put(meta_next, k, en[k])
        /\ reused_count' = reused_count + 1
        /\ hist' = Inserted(k, Get(hist.origin, k))
    /\ todo' = Tail(todo)
    /\ UNCHANGED <<docVars, call, response, pc, runs, en, zh_existing,
                   meta_existing, translated_count, key, calls, returns,
                   pauses, summary>>

\* translated or en_value
OrElse(translated, en_value) == IF Truthy(translated) THEN translated ELSE en_value

\* lines 121-124 without line 122
StoreNoSnapshot(k, c) ==
    /\ zh_next' = Put(zh_next, k, JStr(OrElse(c.result, en[k].s)))
    /\ meta_next' = meta_next
    /\ translated_count' = translated_count + 1
    /\ pauses' = pauses + 1
    /\ returns' = Append(returns, [key |-> k, outcome |-> c.outcome, result |-> c.result])
    /\ call' = NoCall
    /\ key' = "none"
    /\ hist' = Inserted(k, en[k])
    /\ todo' = Tail(todo)
    /\ pc' = "loop"

\* lines 121-124 with the translated text recorded as the snapshot
StoreSnapshotOfTarget(k, c) ==
    /\ zh_next' = Put(zh_next, k, JStr(OrElse(c.result, en[k].s)))
    /\ meta_next' = Put(meta_next, k, JStr(OrElse(c.result, en[k].s)))
    /\ translated_count' = translated_count + 1
    /\ pauses' = pauses + 1
    /\ returns' = Append(returns, [key |-> k, outcome |-> c.outcome, result |-> c.result])
    /\ call' = NoCall
    /\ key' = "none"
    /\ hist' = Inserted(k, en[k])
    /\ todo' = Tail(todo)
    /\ pc' = "loop"

\* lines 121-124 with no target entry for a key whose translation failed
StoreSkipsFailed(k, c) ==
    /\ zh_next' = IF c.outcome = "exhausted" THEN zh_next
                  ELSE Put(zh_next, k, JStr(OrElse(c.result, en[k].s)))
    /\ meta_next' = Put(meta_next, k, en[k])
    /\ translated_count' = translated_count + 1
    /\ pauses' = pauses + 1
    /\ returns' = Append(returns, [key |-> k, outcome |-> c.outcome, result |-> c.result])
    /\ call' = NoCall
    /\ key' = "none"
    /\ hist' = Inserted(k, en[k])
    /\ todo' = Tail(todo)
    /\ pc' = "loop"

\* lines 121-124 with the target stripped before it is stored
StoreStripped(k, c) ==
    /\ zh_next' = Put(zh_next, k, JStr(Strip(OrElse(c.result, en[k].s))))
    /\ meta_next' = Put(meta_next, k, en[k])
    /\ translated_count' = translated_count + 1
    /\ pauses' = pauses + 1
    /\ returns' = Append(returns, [key |-> k, outcome |-> c.outcome, result |-> c.result])
    /\ call' = NoCall
    /\ key' = "none"
    /\ hist' = Inserted(k, en[k])
    /\ todo' = Tail(todo)
    /\ pc' = "loop"

\* the return of the call c on key k to line 120, and lines 121-124
Store(k, c) ==
    /\ zh_next' = Put(zh_next, k, JStr(OrElse(c.result, en[k].s)))
    /\ meta_next' = Put(meta_next, k, en[k])
    /\ translated_count' = translated_count + 1
    /\ pauses' = pauses + 1
    /\ returns' = Append(returns, [key |-> k, outcome |-> c.outcome, result |-> c.result])
    /\ call' = NoCall
    /\ key' = "none"
    /\ hist' = Inserted(k, en[k])
    /\ todo' = Tail(todo)
    /\ pc' = "loop"

\* line 120: the call; a blank text returns at once, another enters the for loop
CallTranslate ==
    /\ pc = "loop" /\ todo # <<>>
    /\ LET k == Head(todo)
           c == Enter(en[k].s)
       IN
        /\ ~Overridden(k)
        /\ ~Reusable(k)
        /\ calls' = Append(calls, [key |-> k, text |-> en[k].s])
        /\ IF c.outcome = "running"
           THEN /\ pc' = "attempt"
                /\ key' = k
                /\ call' = c
                /\ UNCHANGED <<zh_next, meta_next, translated_count, pauses,
                               returns, todo, hist>>
           ELSE Store(k, c)
    /\ UNCHANGED <<docVars, response, runs, en, zh_existing, meta_existing,
                   reused_count, summary>>

\* one attempt of the call in progress: request, response, handling; then the
\* next attempt, or the return to line 120
Attempt ==
    /\ pc = "attempt"
    /\ \E resp \in Responses : LET c == Handle(Request(call), resp) IN
            IF c.outcome = "running"
            THEN /\ call' = c
                 /\ UNCHANGED <<pc, key, zh_next, meta_next, translated_count,
                                pauses, returns, todo, hist>>
            ELSE Store(key, c)
    /\ UNCHANGED <<docVars, response, runs, en, zh_existing, meta_existing,
                   reused_count, calls, summary>>

\* the snapshot written where the target should be
WriteZhSnapshotFirst ==
    /\ pc = "loop" /\ todo = <<>>
    /\ metaDoc' = Written(meta_next)
    /\ hist' = [hist EXCEPT !.meta_order = hist.order]
    /\ pc' = "zh_written"
    /\ UNCHANGED <<enDoc, zhDoc, call, response, runs, en, zh_existing,
                   meta_existing, zh_next, meta_next, translated_count,
                   reused_count, todo, key, calls, returns, pauses, summary>>

\* line 126, after the loop
WriteZh ==
    /\ pc = "loop" /\ todo = <<>>
    /\ zhDoc' = Written(zh_next)
    /\ hist' = [hist EXCEPT !.origin = hist.next, !.zh_order = hist.order]
    /\ pc' = "zh_written"
    /\ UNCHANGED <<enDoc, metaDoc, call, response, runs, en, zh_existing,
                   meta_existing, zh_next, meta_next, translated_count,
                   reused_count, todo, key, calls, returns, pauses, summary>>

\* lines 127-129
WriteMeta ==
    /\ pc = "zh_written"
    /\ metaDoc' = Written(meta_next)
    /\ hist' = [hist EXCEPT !.meta_order = hist.order]
    /\ pc' = "meta_written"
    /\ UNCHANGED <<enDoc, zhDoc, call, response, runs, en, zh_existing,
                   meta_existing, zh_next, meta_next, translated_count,
                   reused_count, todo, key, calls, returns, pauses, summary>>

\* lines 131-133
Summary ==
    /\ pc = "meta_written"
    /\ summary' = [emitted |-> TRUE, reused |-> reused_count,
                   translated |-> translated_count, total |-> Cardinality(DOMAIN en)]
    /\ hist' = [hist EXCEPT !.failed = @ \cup
                    {returns[i].key : i \in {j \in 1..Len(returns) :
                                                returns[j].outcome = "exhausted"}}]
    /\ pc' = "done"
    /\ UNCHANGED <<docVars, call, response, runs, en, zh_existing,
                   meta_existing, zh_next, meta_next, translated_count,
                   reused_count, todo, key, calls, returns, pauses>>

----------------------------------------------------------------------------
(* The documents a run can find, and the specification of the runs *)

InitKeys == {"a", "common.save"}
SrcValues == {<<>>, <<" ">>, <<"h">>}

\* values found in the source, target and snapshot documents; for an
\* overridden key one value of each, a stale translation among them
EnValues ==
    [k \in Keys |->
        IF k \in DOMAIN KEY_OVERRIDES THEN {JStr(<<"h">>)}
        ELSE {JStr(s) : s \in SrcValues}]
ZhValues ==
    [k \in Keys |->
        IF k \in DOMAIN KEY_OVERRIDES THEN {JStr(<<"ni">>)}
        ELSE {JStr(<<>>), JStr(<<" ">>), JStr(<<"ni">>), JOther}]
MetaValues ==
    [k \in Keys |->
        IF k \in DOMAIN KEY_OVERRIDES THEN {JStr(<<"h">>), JStr(<<" ">>)}
        ELSE {JStr(s) : s \in SrcValues} \cup {JOther}]

\* the mappings over keys of K with the values V allows each key
Maps(K, V) ==
    UNION {{m \in [D -> UNION {V[k] : k \in D}] : \A k \in D : m[k] \in V[k]} :
             D \in SUBSET K}

\* a document: missing, unparseable, or holding a mapping
Docs(K, V) == {MissingDoc, MalformedDoc} \cup {OkDoc(m) : m \in Maps(K, V)}

Init ==
    /\ enDoc \in Docs(InitKeys, EnValues)
    /\ zhDoc \in Docs(InitKeys, ZhValues)
    /\ metaDoc \in Docs(InitKeys, MetaValues)
    /\ pc = "idle" /\ runs = 0
    /\ en = EmptyMap /\ zh_existing = EmptyMap /\ meta_existing = EmptyMap
    /\ zh_next = EmptyMap /\ meta_next = EmptyMap
    /\ translated_count = 0 /\ reused_count = 0
    /\ todo = <<>> /\ key = "none"
    /\ call = NoCall /\ response = NoResponse
    /\ calls = <<>> /\ returns = <<>> /\ pauses = 0 /\ summary = NoSummary
    /\ hist = NoHist

Next ==
    \/ StartRun
    \/ Override
    \/ Reuse
    \/ CallTranslate
    \/ Attempt
    \/ WriteZh
    \/ WriteMeta
    \/ Summary

Spec == Init /\ [][Next]_vars

\* a started process runs on: every request ends (timeout=15), every sleep ends
SpecFair == Spec /\ WF_vars(Next)

----------------------------------------------------------------------------
(* google_translate_en_to_zh on its own: one call on a text, the request and *)
(* the handling of its response as separate steps                           *)

Texts == {<<>>, <<" ">>, <<"h">>, <<" ", "h">>}

InitTranslate ==
    /\ enDoc = MissingDoc /\ zhDoc = MissingDoc /\ metaDoc = MissingDoc
    /\ pc = "t_call" /\ runs = 0
    /\ en = EmptyMap /\ zh_existing = EmptyMap /\ meta_existing = EmptyMap
    /\ zh_next = EmptyMap /\ meta_next = EmptyMap
    /\ translated_count = 0 /\ reused_count = 0
    /\ todo = <<>> /\ key = "none"
    /\ \E t \in Texts : call = [NoCall EXCEPT !.text = t]
    /\ response = NoResponse
    /\ calls = <<>> /\ returns = <<>> /\ pauses = 0 /\ summary = NoSummary
    /\ hist = NoHist

harnessFrame ==
    <<docVars, runs, en, zh_existing, meta_existing, zh_next, meta_next,
      translated_count, reused_count, todo, key, calls, returns, pauses, summary,
      hist>>

\* the call, lines 55-57
TCall ==
    /\ pc = "t_call"
    /\ call' = Enter(call.text)
    /\ pc' = IF call'.outcome = "running" THEN "t_request" ELSE "t_returned"
    /\ UNCHANGED <<harnessFrame, response>>

\* lines 72-73: the request of the current attempt and what comes back
TRequest ==
    /\ pc = "t_request"
    /\ call' = Request(call)
    /\ response' \in Responses
    /\ pc' = "t_response"
    /\ UNCHANGED harnessFrame

\* lines 73-89: the rest of the iteration
THandle ==
    /\ pc = "t_response"
    /\ call' = Handle(call, response)
    /\ pc' = IF call'.outcome = "running" THEN "t_request" ELSE "t_returned"
    /\ UNCHANGED <<harnessFrame, response>>

NextTranslate ==
    \/ TCall
    \/ TRequest
    \/ THandle

SpecTranslate == InitTranslate /\ [][NextTranslate]_vars

\* the process is sequential and every request ends (timeout=15), so a step
\* that can be taken is taken
SpecTranslateFair == SpecTranslate /\ WF_vars(NextTranslate)

----------------------------------------------------------------------------
(* Properties of a run *)

\* the mapping the source document holds (empty when missing or unparseable)
SourceMapping == IF enDoc.st = "ok" THEN enDoc.map ELSE EmptyMap

\* the keys on which google_translate_en_to_zh was called in this run
CalledKeys == {calls[i].key : i \in 1..Len(calls)}

Complete == pc = "done"

\* the run found, for key k, a target that line 114 accepts for reuse
WasReusable(k) ==
    /\ k \in DOMAIN zh_existing /\ k \in DOMAIN meta_existing
    /\ zh_existing[k].t = "str"
    /\ \E i \in 1..Len(zh_existing[k].s) : zh_existing[k].s[i] \notin Whitespace
    /\ meta_existing[k] = SourceMapping[k]

\* C1: after a complete run the written target and the written snapshot have
\* exactly the keys of the source mapping.
C1_TotalKeyCoverage ==
    Complete =>
        /\ zhDoc.st = "ok" /\ metaDoc.st = "ok"
        /\ DOMAIN zhDoc.map = DOMAIN SourceMapping
        /\ DOMAIN metaDoc.map = DOMAIN SourceMapping

\* a complete run that dropped a key of the old documents and added a new one
C1_Witness ==
    /\ Complete
    /\ \E k \in DOMAIN zh_existing \cap DOMAIN meta_existing : k \notin DOMAIN SourceMapping
    /\ \E k \in DOMAIN SourceMapping : k \notin DOMAIN zh_existing \cup DOMAIN meta_existing

\* C2: after a complete run the written snapshot value of every source key is
\* the key's current source value.
C2_SnapshotEqualsSource ==
    Complete =>
        \A k \in DOMAIN SourceMapping : Get(metaDoc.map, k) = SourceMapping[k]

\* a complete run with an overridden key and a key whose translation failed,
\* over a snapshot that recorded other values
C2_Witness ==
    /\ Complete
    /\ \E k \in DOMAIN SourceMapping : k \in DOMAIN KEY_OVERRIDES
    /\ \E i \in 1..Len(returns) :
        /\ returns[i].outcome = "exhausted"
        /\ Get(meta_existing, returns[i].key) # SourceMapping[returns[i].key]

\* C3: a source key of the override table gets the override text as its target,
\* whatever the old documents hold, and no translation call.
C3_OverridePrecedence ==
    \A k \in DOMAIN SourceMapping \cap DOMAIN KEY_OVERRIDES :
        /\ k \notin CalledKeys
        /\ k \in DOMAIN zh_next => zh_next[k] = JStr(KEY_OVERRIDES[k])
        /\ Complete => Get(zhDoc.map, k) = JStr(KEY_OVERRIDES[k])

\* a complete run over an overridden key that the old documents would have
\* reused with another text
C3_Witness ==
    /\ Complete
    /\ \E k \in DOMAIN SourceMapping \cap DOMAIN KEY_OVERRIDES :
        /\ WasReusable(k)
        /\ zh_existing[k] # JStr(KEY_OVERRIDES[k])

\* the step of the loop on key k is about to be taken
AtKey(k) == pc = "loop" /\ todo # <<>> /\ Head(todo) = k

\* the step taken calls the translation client on k's source value and counts
\* nothing as reused
TranslatesNow(k) ==
    /\ calls' = Append(calls, [key |-> k, text |-> SourceMapping[k].s])
    /\ reused_count' = reused_count

\* C4 as stated: every source key whose source value differs from the snapshot's
\* is sent to the translation client and is not counted as reused.
C4_ChangeDetectionAllKeys ==
    [][\A k \in Keys :
        (AtKey(k) /\ k \in DOMAIN meta_existing /\ meta_existing[k] # SourceMapping[k])
            => TranslatesNow(k)]_vars

\* C4 amended: every source key outside the override table whose source value
\* differs from the snapshot's (or has no snapshot value) is sent to the
\* translation client on that value and is not counted as reused.
C4_ChangeDetection ==
    [][\A k \in Keys \ DOMAIN KEY_OVERRIDES :
        (AtKey(k) /\ Get(meta_existing, k) # SourceMapping[k]) => TranslatesNow(k)]_vars

\* a translation call was made for a key whose old target was fit for reuse
\* but whose snapshot recorded another source value
C4_Witness ==
    \E i \in 1..Len(calls) :
        LET k == calls[i].key IN
            /\ k \in DOMAIN zh_existing /\ k \in DOMAIN meta_existing
            /\ zh_existing[k] = JStr(<<"ni">>)
            /\ meta_existing[k].t = "str"
            /\ meta_existing[k] # SourceMapping[k]

\* the non-overridden source keys whose source value is blank
BlankKeys ==
    {k \in DOMAIN SourceMapping \ DOMAIN KEY_OVERRIDES :
        \A i \in 1..Len(SourceMapping[k].s) : SourceMapping[k].s[i] \in Whitespace}

\* a complete run that followed a complete run on the same source mapping
SecondRunComplete == Complete /\ runs >= 2

\* the run wrote the documents it had loaded
SameOutputs ==
    /\ zhDoc = OkDoc(zh_existing)
    /\ metaDoc = OkDoc(meta_existing)

\* C5 as stated: the second of two runs on an unchanged source mapping writes
\* the documents of the first, with every key reused and none translated.
C5_IdempotenceAllReused ==
    SecondRunComplete =>
        /\ SameOutputs
        /\ summary.reused = Cardinality(DOMAIN SourceMapping)
        /\ summary.translated = 0

\* the keys whose written target value is blank
BlankTargets ==
    {k \in DOMAIN zhDoc.map :
        \A i \in 1..Len(zhDoc.map[k].s) : zhDoc.map[k].s[i] \in Whitespace}

\* C5 amended: the second run writes the documents of the first; it counts as
\* translated exactly the keys whose written target is blank, which are
\* non-overridden keys with a blank source value, and as reused every other
\* key; it issues no translation request.
C5_Idempotence ==
    SecondRunComplete =>
        /\ SameOutputs
        /\ BlankTargets \subseteq BlankKeys
        /\ summary.translated = Cardinality(BlankTargets)
        /\ summary.reused = Cardinality(DOMAIN SourceMapping \ BlankTargets)
        /\ CalledKeys = BlankTargets
        /\ \A i \in 1..Len(returns) : returns[i].outcome = "blank"

\* a second run that reused a translation the first run had degraded to the
\* source text, beside a blank entry or an overridden one
C5_Witness ==
    /\ SecondRunComplete
    /\ \E k \in DOMAIN SourceMapping \ DOMAIN KEY_OVERRIDES :
        /\ k \notin BlankKeys
        /\ zhDoc.map[k] = SourceMapping[k]
    /\ summary.reused > 1

\* the target value the run owes key k when no translation request succeeds
DegradedTarget(k) ==
    IF k \in DOMAIN KEY_OVERRIDES THEN JStr(KEY_OVERRIDES[k])
    ELSE IF WasReusable(k) THEN zh_existing[k]
    ELSE SourceMapping[k]

NoRequestSucceeded == \A i \in 1..Len(returns) : returns[i].outcome # "ok"

\* C6: a run in which no translation request succeeds still completes, with
\* both documents written and the summary emitted, and every key's target is
\* the override text, the reused target or the source value.
C6_GracefulDegradation ==
    /\ [](Complete /\ NoRequestSucceeded =>
            /\ zhDoc.st = "ok" /\ metaDoc.st = "ok"
            /\ summary.emitted
            /\ \A k \in DOMAIN SourceMapping : Get(zhDoc.map, k) = DegradedTarget(k))
    /\ (pc \in {"loop", "attempt"} ~> Complete)

\* a complete run in which a translation call failed on all its attempts
C6_Witness ==
    /\ Complete
    /\ NoRequestSucceeded
    /\ \E i \in 1..Len(returns) : returns[i].outcome = "exhausted"

----------------------------------------------------------------------------
(* Properties of a call of google_translate_en_to_zh *)

Returned == pc = "t_returned"

\* the fragments of the first n segments of a response, in order
RECURSIVE FragmentsUpTo(_, _)
FragmentsUpTo(parts, n) ==
    IF n = 0 THEN <<>>
    ELSE FragmentsUpTo(parts, n - 1)
         \o (IF parts[n].shape = "str" THEN parts[n].frag ELSE <<>>)

Fragments(resp) == FragmentsUpTo(resp.parts, Len(resp.parts))

\* r is s without its leading and trailing whitespace
IsStripOf(r, s) ==
    /\ r # <<>> => r[1] \notin Whitespace /\ r[Len(r)] \notin Whitespace
    /\ \E i \in 1..Len(s) + 1, j \in 0..Len(s) :
        /\ r = SubSeq(s, i, j)
        /\ \A x \in 1..Len(s) : (x < i \/ x > j) => s[x] \in Whitespace

\* the attempt that received resp yielded a non-empty result
Yields(resp) ==
    /\ resp.err = "none"
    /\ resp.shape = "list"
    /\ \E x \in 1..Len(Fragments(resp)) : Fragments(resp)[x] \notin Whitespace

\* C7: a call always returns a value: the stripped concatenation of the
\* fragments of the first attempt that yielded a non-empty result, or the
\* text itself when no attempt yielded one.
C7_NeverRaises ==
    /\ Returned => call.outcome \in {"blank", "ok", "exhausted"}
    /\ (Returned /\ call.outcome = "ok") =>
        /\ Yields(response)
        /\ call.result # <<>>
        /\ IsStripOf(call.result, Fragments(response))
    /\ (Returned /\ call.outcome # "ok") =>
        /\ call.result = call.text
        /\ call.requests > 0 => ~Yields(response)
    /\ (pc = "t_request" /\ call.requests > 0) => ~Yields(response)

\* a call returned a result that had whitespace to strip, after a failed attempt
C7_Witness ==
    /\ Returned /\ call.outcome = "ok"
    /\ call.requests > 1
    /\ Fragments(response) # call.result

\* C8: a call that exhausts its attempts has printed a warning with the text
\* and the last error.
C8_WarnsOnExhaustion ==
    (Returned /\ call.outcome = "exhausted") =>
        /\ call.warned.text = call.text
        /\ call.warned.error \in Errors

\* C9: a call on a non-blank text ends after 1 to 3 requests; a request follows
\* only failed attempts, none follows a usable result, and a call whose
\* attempts all fail issues exactly 3.
C9_BoundedRetry ==
    /\ [](/\ call.requests <= 3
          /\ (Returned /\ call.outcome # "blank") => call.requests >= 1
          /\ call.outcome = "exhausted" => call.requests = 3
          /\ (Returned /\ call.outcome # "blank" /\ call.requests < 3) =>
                call.outcome = "ok" /\ Yields(response)
          /\ (pc = "t_request" /\ call.requests > 0) => ~Yields(response)
          /\ call.outcome = "ok" => Returned)
    /\ <>Returned

\* a call returned after three failed attempts
C9_Witness ==
    /\ Returned
    /\ call.outcome = "exhausted"
    /\ call.requests = 3

\* C10: before every attempt after the first the client has waited once per
\* earlier attempt, n times 0.2 s after attempt n.
C10_Backoff ==
    pc = "t_request" =>
        /\ Len(call.waits) = call.requests
        /\ \A n \in 1..Len(call.waits) : call.waits[n] = 2 * n

----------------------------------------------------------------------------
(* The reuse rule, the translate step and the blank text *)

\* the step taken reuses k's existing target: the target is stored unchanged,
\* the key is counted as reused and the client is not called
ReusesNow(k) ==
    /\ zh_next' = Put(zh_next, k, zh_existing[k])
    /\ reused_count' = reused_count + 1
    /\ translated_count' = translated_count
    /\ calls' = calls

\* the snapshot the run found holds, for k, the current source value
SnapshotMatches(k) ==
    k \in DOMAIN meta_existing /\ meta_existing[k] = SourceMapping[k]

\* C11 as stated: a key outside the override table whose existing target is a
\* non-empty string, whitespace-only strings included, and whose snapshot value
\* equals the source value is reused.
C11_ReuseRuleNonEmpty ==
    [][\A k \in Keys \ DOMAIN KEY_OVERRIDES :
        (/\ AtKey(k)
         /\ k \in DOMAIN zh_existing
         /\ zh_existing[k].t = "str" /\ zh_existing[k].s # <<>>
         /\ SnapshotMatches(k))
        => ReusesNow(k)]_vars

\* C11: a key outside the override table whose existing target is a string
\* with a character that is not whitespace, and whose snapshot value equals the
\* source value, is reused: target unchanged, counted as reused, no client call.
C11_ReuseRule ==
    [][\A k \in Keys \ DOMAIN KEY_OVERRIDES :
        (/\ AtKey(k)
         /\ k \in DOMAIN zh_existing
         /\ zh_existing[k].t = "str"
         /\ \E i \in 1..Len(zh_existing[k].s) : zh_existing[k].s[i] \notin Whitespace
         /\ SnapshotMatches(k))
        => ReusesNow(k)]_vars

\* a run reused the target of a key outside the override table
C11_Witness ==
    /\ pc = "loop" /\ reused_count > 0 /\ calls = <<>>
    /\ \E k \in DOMAIN zh_next \ DOMAIN KEY_OVERRIDES :
        /\ WasReusable(k)
        /\ zh_next[k] = zh_existing[k]
        /\ zh_next[k] # SourceMapping[k]

\* the keys that went through the translate step in this run
ReturnedKeys == {returns[i].key : i \in 1..Len(returns)}

\* C12: a key with a non-empty source value that went through the translate
\* step has a non-empty string as its target, in zh_next and in the written
\* target document, however the attempts of its call ended.
C12_NoEmptyTarget ==
    \A k \in ReturnedKeys :
        SourceMapping[k].s # <<>> =>
            /\ zh_next[k].t = "str" /\ zh_next[k].s # <<>>
            /\ pc \in {"zh_written", "meta_written", "done"} =>
                /\ zhDoc.st = "ok" /\ k \in DOMAIN zhDoc.map
                /\ zhDoc.map[k].t = "str" /\ zhDoc.map[k].s # <<>>

\* a run wrote the target of a key whose translation failed on every attempt
C12_Witness ==
    /\ Complete
    /\ \E i \in 1..Len(returns) :
        /\ returns[i].outcome = "exhausted"
        /\ SourceMapping[returns[i].key].s # <<>>
        /\ zhDoc.map[returns[i].key] = SourceMapping[returns[i].key]

\* every character of t is whitespace
Blank(t) == \A i \in 1..Len(t) : t[i] \in Whitespace

\* C13: a call on an empty or whitespace-only text makes no request and no
\* wait, and returns the text as it was given.
C13_BlankShortCircuit ==
    Blank(call.text) =>
        /\ pc \in {"t_call", "t_returned"}
        /\ call.requests = 0
        /\ call.waits = <<>>
        /\ Returned => call.result = call.text

\* a call on a whitespace-only text returned
C13_Witness ==
    /\ Returned
    /\ call.text = <<" ">>
    /\ call.result = <<" ">>

----------------------------------------------------------------------------
(* Prior documents that are missing or cannot be parsed *)

\* the run is in its key loop: the documents are as the loads found them
InLoop == pc \in {"loop", "attempt"}

\* the keys the loop has processed
Processed == DOMAIN zh_next

\* the loop is over and nothing is written yet
LoopOver == pc = "loop" /\ todo = <<>>

\* C15: a target or snapshot document that is missing or cannot be parsed loads
\* as the empty mapping, and the run then reuses no key: exactly the overridden
\* keys are counted as reused, every other key is translated by a client call.
C15_MissingPriorState ==
    InLoop =>
        /\ zhDoc.st # "ok" => zh_existing = EmptyMap
        /\ metaDoc.st # "ok" => meta_existing = EmptyMap
        /\ (zhDoc.st # "ok" \/ metaDoc.st # "ok") =>
            /\ reused_count = Cardinality(Processed \cap DOMAIN KEY_OVERRIDES)
            /\ translated_count = Cardinality(Processed \ DOMAIN KEY_OVERRIDES)
            /\ Processed \ DOMAIN KEY_OVERRIDES \subseteq CalledKeys
            /\ LoopOver =>
                /\ Processed = DOMAIN SourceMapping
                /\ CalledKeys = DOMAIN SourceMapping \ DOMAIN KEY_OVERRIDES

\* a run found a usable target and no snapshot, and translated the key again
C15_Witness ==
    /\ LoopOver
    /\ metaDoc.st = "missing" /\ zhDoc.st = "ok"
    /\ \E k \in CalledKeys :
        /\ k \in DOMAIN zhDoc.map
        /\ zhDoc.map[k] = JStr(<<"ni">>)
    /\ reused_count = 1 /\ translated_count = 1

----------------------------------------------------------------------------
(* Runs over all the keys: documents that hold any of the three keys, with *)
(* one value a key                                                         *)

\* no process has run yet
NotStarted ==
    /\ pc = "idle" /\ runs = 0
    /\ en = EmptyMap /\ zh_existing = EmptyMap /\ meta_existing = EmptyMap
    /\ zh_next = EmptyMap /\ meta_next = EmptyMap
    /\ translated_count = 0 /\ reused_count = 0
    /\ todo = <<>> /\ key = "none"
    /\ call = NoCall /\ response = NoResponse
    /\ calls = <<>> /\ returns = <<>> /\ pauses = 0 /\ summary = NoSummary
    /\ hist = NoHist

KeysEnValues == [k \in Keys |-> {JStr(<<"h">>)}]
KeysZhValues == [k \in Keys |-> {JStr(<<"ni">>)}]

\* any source document; a target and a snapshot with the same keys, as an
\* earlier run wrote them, or both missing or unparseable
InitKeysRun ==
    /\ enDoc \in Docs(Keys, KeysEnValues)
    /\ zhDoc \in Docs(Keys, KeysZhValues)
    /\ metaDoc \in Docs(Keys, KeysEnValues)
    /\ zhDoc.st = metaDoc.st
    /\ DOMAIN zhDoc.map = DOMAIN metaDoc.map
    /\ NotStarted

SpecKeys == InitKeysRun /\ [][Next]_vars

\* the keys of a sequence of calls or returns, in order
KeysOf(rs) == [i \in 1..Len(rs) |-> rs[i].key]

\* the elements of a sequence
Range(seq) == {seq[i] : i \in 1..Len(seq)}

\* C14: at every point of a run each processed key is counted once, as reused
\* or as translated, with one client call for each translated key; a complete
\* run reports reused + translated = total = the number of source keys, and an
\* empty source mapping gives empty documents and the counts 0, 0, 0.
C14_StatsAccounting ==
    /\ reused_count + translated_count = Cardinality(Processed)
    /\ Processed = DOMAIN en \ Range(todo)
    /\ translated_count = Len(returns)
    /\ Cardinality(ReturnedKeys) = Len(returns)
    /\ ReturnedKeys \subseteq Processed
    /\ reused_count = Cardinality(Processed \ ReturnedKeys)
    /\ Cardinality(CalledKeys) = Len(calls)
    /\ CalledKeys = ReturnedKeys \cup (IF pc = "attempt" THEN {key} ELSE {})
    /\ pc = "attempt" => key \notin Processed
    /\ Complete =>
        /\ summary.reused + summary.translated = summary.total
        /\ summary.total = Cardinality(DOMAIN SourceMapping)
        /\ summary.reused = reused_count /\ summary.translated = translated_count
        /\ DOMAIN SourceMapping = {} =>
            /\ zhDoc = OkDoc(EmptyMap) /\ metaDoc = OkDoc(EmptyMap)
            /\ summary.reused = 0 /\ summary.translated = 0 /\ summary.total = 0

\* a complete run translated two keys and counted the overridden key as reused
C14_Witness ==
    /\ Complete
    /\ summary.translated = 2 /\ summary.reused = 1 /\ summary.total = 3
    /\ Len(calls) = 2

\* the position of a key in ascending order
Rank(k) == CHOOSE i \in 1..Len(KeyOrder) : KeyOrder[i] = k

\* the keys of a sequence are in strictly ascending order
Ascending(ks) == \A i, j \in 1..Len(ks) : i < j => Rank(ks[i]) < Rank(ks[j])

\* C20: the keys are processed one at a time in ascending order, the client is
\* called on one key at a time in ascending key order, and the entries of the
\* written documents are in ascending key order, whatever the order of the
\* keys in the source document.
C20_DeterministicOrdering ==
    /\ Ascending(hist.order \o todo)
    /\ Range(hist.order) = Processed
    /\ Ascending(KeysOf(calls))
    /\ KeysOf(returns) = SubSeq(KeysOf(calls), 1, Len(returns))
    /\ Len(calls) = Len(returns) + (IF pc = "attempt" THEN 1 ELSE 0)
    /\ pc \in {"zh_written", "meta_written", "done"} =>
        /\ Ascending(hist.zh_order)
        /\ Range(hist.zh_order) = DOMAIN zhDoc.map
    /\ pc \in {"meta_written", "done"} =>
        /\ Ascending(hist.meta_order)
        /\ Range(hist.meta_order) = DOMAIN metaDoc.map

\* a complete run called the client on two keys and wrote three entries
C20_Witness ==
    /\ Complete
    /\ KeysOf(calls) = <<"a", "b">>
    /\ hist.zh_order = <<"a", "b", "common.save">>
    /\ hist.meta_order = <<"a", "b", "common.save">>

----------------------------------------------------------------------------
(* The documents over time: runs from empty target and snapshot documents, *)
(* edits of the source document between runs, processes killed             *)

MaxLifeRuns == 3

LifeKeys == {"a", "common.save"}
LifeValues ==
    [k \in Keys |->
        IF k \in DOMAIN KEY_OVERRIDES THEN {JStr(<<"h">>)}
        ELSE {JStr(<<"h">>), JStr(<<"w">>)}]

\* no target and no snapshot yet: no file, or a file holding {}
EmptyDocs == {MissingDoc, OkDoc(EmptyMap)}

\* the source mappings over time: the overridden keys stay, another key comes,
\* changes and goes
LifeSources ==
    {m \in Maps(LifeKeys, LifeValues) : DOMAIN KEY_OVERRIDES \subseteq DOMAIN m}

InitLife ==
    /\ enDoc \in {OkDoc(m) : m \in LifeSources}
    /\ zhDoc = MissingDoc
    /\ metaDoc = MissingDoc
    /\ NotStarted

StartLifeRun == Start(MaxLifeRuns)

\* the process is gone, and with it its variables and what it printed
Gone ==
    /\ en' = EmptyMap /\ zh_existing' = EmptyMap /\ meta_existing' = EmptyMap
    /\ zh_next' = EmptyMap /\ meta_next' = EmptyMap
    /\ translated_count' = 0 /\ reused_count' = 0
    /\ todo' = <<>> /\ key' = "none"
    /\ call' = NoCall
    /\ calls' = <<>> /\ returns' = <<>> /\ pauses' = 0 /\ summary' = NoSummary

\* after a process has ended someone edits en.json: keys get other values, are
\* added or removed
EditSource ==
    /\ pc \in {"done", "killed"}
    /\ enDoc.st = "ok"
    /\ \E m \in LifeSources :
        /\ m # enDoc.map
        /\ enDoc' = OkDoc(m)
        /\ hist' = [hist EXCEPT !.failed = {k \in @ : Get(m, k) = Get(enDoc.map, k)},
                                !.order = <<>>, !.next = EmptyMap]
    /\ pc' = "idle"
    /\ Gone
    /\ UNCHANGED <<zhDoc, metaDoc, response, runs>>

\* the process is killed in the key loop, before anything is written
KillInLoop ==
    /\ pc \in {"loop", "attempt"}
    /\ pc' = "killed"
    /\ Gone
    /\ hist' = [hist EXCEPT !.order = <<>>, !.next = EmptyMap]
    /\ UNCHANGED <<docVars, response, runs>>

\* the process is killed after line 126 and before line 127 has written
KillBetweenWrites ==
    /\ pc = "zh_written"
    /\ pc' = "killed"
    /\ Gone
    /\ hist' = [hist EXCEPT !.order = <<>>, !.next = EmptyMap]
    /\ UNCHANGED <<docVars, response, runs>>

NextLife ==
    \/ StartLifeRun
    \/ Override
    \/ Reuse
    \/ CallTranslate
    \/ Attempt
    \/ WriteZh
    \/ WriteMeta
    \/ Summary
    \/ EditSource
    \/ KillInLoop
    \/ KillBetweenWrites

SpecLife == InitLife /\ [][NextLife]_vars

\* C16: after complete runs, source edits and runs killed between the two
\* writes, a complete run leaves every target entry outside the override table
\* produced from the key's current source value, and no run reuses a target
\* that was produced from another source value.
C16_SelfHealing ==
    /\ Complete =>
        \A k \in DOMAIN zhDoc.map \ DOMAIN KEY_OVERRIDES :
            /\ hist.origin[k] = en[k]
            /\ metaDoc.map[k] = en[k]
    /\ \A k \in Processed \ DOMAIN KEY_OVERRIDES : hist.next[k] = en[k]

\* the document holds what the load gave: the mapping m
Holds(doc, m) == IF doc.st = "ok" THEN doc.map = m ELSE m = EmptyMap

\* C17: no document is written before every key is processed, the target is
\* written before the snapshot, a process killed in the key loop leaves both
\* documents as it found them, and the only partial state a killed process
\* leaves is the new target with the old snapshot.
C17_WriteOrdering ==
    /\ [](/\ InLoop =>
                /\ Holds(zhDoc, zh_existing)
                /\ Holds(metaDoc, meta_existing)
          /\ pc = "zh_written" =>
                /\ Processed = DOMAIN en
                /\ zhDoc = Written(zh_next)
                /\ Holds(metaDoc, meta_existing)
          /\ pc \in {"meta_written", "done"} =>
                /\ zhDoc = Written(zh_next)
                /\ metaDoc = Written(meta_next))
    /\ [][/\ (zhDoc' # zhDoc \/ pc' = "zh_written") =>
                /\ LoopOver
                /\ Processed = DOMAIN en
                /\ metaDoc' = metaDoc
          /\ (metaDoc' # metaDoc \/ pc' = "meta_written") =>
                /\ pc = "zh_written"
                /\ zhDoc' = zhDoc
          /\ pc' = "killed" => (zhDoc' = zhDoc /\ metaDoc' = metaDoc)]_vars

\* a killed process left a new target entry and the old snapshot without it
C17_Witness ==
    /\ pc = "killed"
    /\ zhDoc.st = "ok" /\ "a" \in DOMAIN zhDoc.map
    /\ metaDoc.st = "ok" /\ metaDoc.map # EmptyMap
    /\ "a" \notin DOMAIN metaDoc.map

\* the step taken processes the key k
ProcessesNow(k) == AtKey(k) /\ pc' # "killed"

\* C18: a complete run in which the translation of a key failed on every
\* attempt stores the source value as target and as snapshot, and every later
\* run that finds the key's source value unedited reuses that target: counted
\* as reused, no client call.
C18_FailedNeverRetried ==
    /\ [](Complete =>
            \A i \in 1..Len(returns) :
                returns[i].outcome = "exhausted" =>
                    /\ zhDoc.map[returns[i].key] = en[returns[i].key]
                    /\ metaDoc.map[returns[i].key] = en[returns[i].key])
    /\ [][\A k \in hist.failed :
            ProcessesNow(k) =>
                /\ ReusesNow(k)
                /\ zh_next'[k] = en[k]]_vars

\* a later run reused the untranslated text of a key whose translation had failed
C18_Witness ==
    /\ pc = "loop" /\ runs >= 2
    /\ calls = <<>> /\ reused_count > 0
    /\ \E k \in hist.failed \cap Processed : zh_next[k] = en[k]

----------------------------------------------------------------------------
(* Writes that fail *)

\* what a failed write_text leaves: the file as it was when it could not be
\* opened, a truncated file when the write broke off
FailedWrite(doc) == {doc, MalformedDoc}

\* a failed write of the target caught and passed over
WriteZhErrorSwallowed ==
    /\ pc = "loop" /\ todo = <<>>
    /\ zhDoc' \in FailedWrite(zhDoc)
    /\ hist' = IF zhDoc' = zhDoc THEN hist
               ELSE [hist EXCEPT !.origin = EmptyMap, !.zh_order = <<>>]
    /\ pc' = "zh_written"
    /\ UNCHANGED <<enDoc, metaDoc, call, response, runs, en, zh_existing,
                   meta_existing, zh_next, meta_next, translated_count,
                   reused_count, todo, key, calls, returns, pauses, summary>>

\* line 126 raises OSError: the process ends with a traceback
WriteZhFails ==
    /\ pc = "loop" /\ todo = <<>>
    /\ zhDoc' \in FailedWrite(zhDoc)
    /\ hist' = IF zhDoc' = zhDoc THEN hist
               ELSE [hist EXCEPT !.origin = EmptyMap, !.zh_order = <<>>]
    /\ pc' = "crashed_zh"
    /\ UNCHANGED <<enDoc, metaDoc, call, response, runs, en, zh_existing,
                   meta_existing, zh_next, meta_next, translated_count,
                   reused_count, todo, key, calls, returns, pauses, summary>>

\* lines 127-129 raise OSError: the process ends with a traceback
WriteMetaFails ==
    /\ pc = "zh_written"
    /\ metaDoc' \in FailedWrite(metaDoc)
    /\ hist' = IF metaDoc' = metaDoc THEN hist
               ELSE [hist EXCEPT !.meta_order = <<>>]
    /\ pc' = "crashed_meta"
    /\ UNCHANGED <<enDoc, zhDoc, call, response, runs, en, zh_existing,
                   meta_existing, zh_next, meta_next, translated_count,
                   reused_count, todo, key, calls, returns, pauses, summary>>

NextWrite ==
    \/ StartRun
    \/ Override
    \/ Reuse
    \/ CallTranslate
    \/ Attempt
    \/ WriteZh
    \/ WriteMeta
    \/ Summary
    \/ WriteZhFails
    \/ WriteMetaFails

\* any source document; a target and a snapshot that are empty, missing or
\* unparseable, or that a run on the source document has written
InitWrite ==
    /\ enDoc \in Docs(InitKeys, EnValues)
    /\ \/ zhDoc \in EmptyDocs \cup {MalformedDoc} /\ metaDoc \in EmptyDocs \cup {MalformedDoc}
       \/ /\ enDoc.st = "ok"
          /\ zhDoc = OkDoc([k \in DOMAIN enDoc.map |-> JStr(<<"ni">>)])
          /\ metaDoc = OkDoc(enDoc.map)
    /\ NotStarted

SpecWrite == InitWrite /\ [][NextWrite]_vars

\* a started process runs on: a step that can be taken without a write error,
\* or with one, is taken
SpecWriteFair == SpecWrite /\ WF_vars(NextWrite)

\* a process is running
Running == pc \in {"loop", "attempt", "zh_written", "meta_written"}

\* C19: a failed write of the target ends the process with the snapshot as it
\* was and no summary; a failed write of the snapshot ends it with the target
\* replaced and no summary; a summary is printed only after both documents
\* were written, and every process that meets no write error prints it.
C19_WriteFailureAborts ==
    /\ [](/\ pc = "crashed_zh" =>
                /\ Holds(metaDoc, meta_existing)
                /\ ~summary.emitted
          /\ pc = "crashed_meta" =>
                /\ zhDoc = Written(zh_next)
                /\ ~summary.emitted
          /\ summary.emitted =>
                /\ Complete
                /\ zhDoc = Written(zh_next)
                /\ metaDoc = Written(meta_next)
          /\ pc \in {"zh_written", "meta_written"} => zhDoc = Written(zh_next)
          /\ pc = "meta_written" => metaDoc = Written(meta_next))
    /\ [][pc' \in {"crashed_zh", "crashed_meta"} =>
            /\ pc \in {"loop", "zh_written"} /\ todo = <<>>
            /\ pc' = "crashed_zh" <=> pc = "loop"]_vars
    /\ (Running ~> (Complete \/ pc \in {"crashed_zh", "crashed_meta"}))

\* the write of the snapshot failed after a key was translated and the target
\* replaced
C19_Witness ==
    /\ pc = "crashed_meta"
    /\ metaDoc = MalformedDoc
    /\ zhDoc = Written(zh_next)
    /\ translated_count > 0

====
